---- MODULE Spec2Model ----
(***************************************************************************)
(* Ranking state of the three ranking pages (tier, free, slider) of the    *)
(* rank maker, one action per event handler.                               *)
(*                                                                         *)
(* Items are numbered in catalog (initialItems) order.                      *)
(* Tier scores are the integers of tierMetadata.  Free and slider scores    *)
(* are kept in hundredths (1.00 is 100): every score the slider page       *)
(* stores is Math.round(x * 100) / 100, and the free page's number input   *)
(* has step 0.01.  The value handed to the slider's handleScoreChange is   *)
(* in thousandths, so that its rounding to two decimals is a real          *)
(* conversion.  The hover highlight of the slider page (dragOverItemId)    *)
(* only selects a style and is left out.                                   *)
(*                                                                         *)
(* The knowledge graph of a page, its property graph and the GRC-20 batch  *)
(* prepared from it are functions of the page state.  A relation id is a   *)
(* fresh UUID that nothing reads but the conversion, which copies it: the  *)
(* page state keeps relations without their id and a graph carries any     *)
(* distinct ids.  The free and slider pages build relations in the         *)
(* insertion order of the Set rankedItemIds, which the state does not      *)
(* keep: a built graph carries them in any order.                          *)
(***************************************************************************)
EXTENDS Integers, Sequences, FiniteSets, TLC

\* ---------------------------------------------------------------- bounds
MaxInserts == 1
MaxEntities == 2
MaxRelations == 2
\* Encode calls that can be in progress at once.
MaxRunning == 2

\* ------------------------------------------------------------- constants
NoItem == 0
NoScore == -1
RankListId == 9
NaN == -999999

SliderMin == 100
SliderMax == 10000
FallbackScore == 5000
FreeDefaultScore == 0

\* The catalog handed to the page, in its order.
initialItems == <<1, 2, 3>>

Items == {initialItems[k] : k \in 1..Len(initialItems)}
TierScores == {6, 5, 4, 3, 2, 1}
Modes == {"tier", "free", "slider"}

\* Values the slider widget can hand to onChange (thousandths, on the
\* 0.01 step grid between min and max).
SliderValues == {80000}

\* Values a direct call of the slider page's handleScoreChange can be given.
RawValues == SliderValues \cup {500, 150000, 12345}

\* Texts the free page's score input can hand to handleScoreChange.
FreeInputs ==
    { <<>>, <<"0">>, <<"7">>, <<"3", ".", "5">>, <<"-", "5">>, <<"-", "0">>,
      <<"a", "b", "c">>, <<"1", "2", "a">>, <<" ", "7">>, <<"-">>, <<".">> }

\* mode .. last are the state of the ranking page; entities is the entity
\* list of the tier page's graph state; kgraph, pgraph and prepared are the
\* input and the results of the graph functions when they are applied to
\* graphs given from outside.  prepared holds prepareStatus.status and, when
\* preparedData is not null, the data and the title it was made with;
\* isPreparing and showPublishModal are the flags of the hook and of the
\* page; pending holds the titles of the encode calls that have started
\* and not finished.
VARIABLES mode, draggedItem, entities, relations, itemScores,
          rankedItemIds, activeSliderItemId, sortedItemOrder, inserts, last,
          kgraph, pgraph, prepared, isPreparing, showPublishModal, pending

hookVars == <<isPreparing, showPublishModal, pending>>

graphVars == <<kgraph, pgraph, prepared, hookVars>>

pageVars == <<mode, draggedItem, entities, relations, itemScores,
              rankedItemIds, activeSliderItemId, sortedItemOrder, inserts>>

vars == <<mode, draggedItem, entities, relations, itemScores,
          rankedItemIds, activeSliderItemId, sortedItemOrder, inserts, last,
          graphVars>>

\* ------------------------------------------------------------- Map helpers
EmptyMap == [x \in {} |-> 0]

MapHas(m, k) == k \in DOMAIN m

MapSet(m, k, v) == [x \in (DOMAIN m) \cup {k} |-> IF x = k THEN v ELSE m[x]]

MapDelete(m, k) == [x \in (DOMAIN m) \ {k} |-> m[x]]

MapGet(m, k) == IF k \in DOMAIN m THEN m[k] ELSE NoScore

MapValues(m) == {m[x] : x \in DOMAIN m}

SetMin(S) == CHOOSE x \in S : \A y \in S : x <= y

\* The last event handled: handler name, item, numeric argument, text
\* argument and, on the tier page, the score the item held before the
\* event.  On the slider page the event names its item only for a drop on
\* an item.
Event(op, item, arg, text, was) ==
    [op |-> op, item |-> item, arg |-> arg, text |-> text, was |-> was]

\* The empty record and the values standing for "no graph" and "no result".
EmptyRecord == [x \in {} |-> 0]
NoGraph == [entities |-> <<>>, relations |-> <<>>]
NotPrepared == [status |-> "idle"]

\* ------------------------------------------------------------ the entities
\* The rank list of the session (its id is a UUID made once, when the
\* category is chosen) and the catalog items as entities.
rankListEntity ==
    [id |-> RankListId, name |-> "Movies", rank_type |-> "weighted_rank"]

ItemName(i) == CASE i = 1 -> "item1" [] i = 2 -> "item2" [] i = 3 -> "item3"

ItemEntity(i) == [id |-> i, name |-> ItemName(i), emoji |-> "*"]

initialItemEntities == [k \in 1..Len(initialItems) |-> ItemEntity(initialItems[k])]

\* ================================================================ tier page
RelationsTo(rels, item) == {k \in 1..Len(rels) : rels[k].to = item}

TierScoreOf(rels, item) ==
    IF RelationsTo(rels, item) = {} THEN NoScore
    ELSE rels[CHOOSE k \in RelationsTo(rels, item) : TRUE].score

\* Items shown in the unranked pool of the tier page.
getUnrankedItemsTier == {i \in Items : RelationsTo(relations, i) = {}}

\* Items shown in the row of the tier with the given score.
getItemsForTierScore(score) ==
    {i \in Items : \E k \in 1..Len(relations) :
                      relations[k].to = i /\ relations[k].score = score}

RemoveRelationsTo_keep(rels, item) == rels

RemoveRelationsTo(rels, item) == SelectSeq(rels, LAMBDA rel : rel.to /= item)

handleDropRelations(rels, item, targetScore) ==
    LET newRelations == RemoveRelationsTo(rels, item)
    IN  IF targetScore /= NoScore
        THEN Append(newRelations,
                    [from |-> RankListId, to |-> item, score |-> targetScore])
        ELSE newRelations

TierDragStart(item) ==
    /\ mode = "tier"
    /\ draggedItem' = item
    /\ last' = Event("handleDragStart", item, 0, <<>>, NoScore)
    /\ UNCHANGED <<mode, entities, graphVars, relations, itemScores, rankedItemIds,
                   activeSliderItemId, sortedItemOrder, inserts>>

handleDrop_noSpread(targetScore) ==
    /\ mode = "tier"
    /\ draggedItem /= NoItem
    /\ entities' = <<>>
    /\ relations' = handleDropRelations(relations, draggedItem, targetScore)
    /\ draggedItem' = NoItem
    /\ last' = Event("handleDrop", draggedItem, targetScore, <<>>,
                     TierScoreOf(relations, draggedItem))
    /\ UNCHANGED <<mode, graphVars, itemScores, rankedItemIds,
                   activeSliderItemId, sortedItemOrder, inserts>>

handleDrop(targetScore) ==
    /\ mode = "tier"
    /\ draggedItem /= NoItem
    /\ relations' = handleDropRelations(relations, draggedItem, targetScore)
    /\ draggedItem' = NoItem
    /\ last' = Event("handleDrop", draggedItem, targetScore, <<>>,
                     TierScoreOf(relations, draggedItem))
    /\ UNCHANGED <<mode, entities, graphVars, itemScores, rankedItemIds,
                   activeSliderItemId, sortedItemOrder, inserts>>

TierReset_dropsItems ==
    /\ mode = "tier"
    /\ entities' = <<rankListEntity>>
    /\ relations' = <<>>
    /\ last' = Event("handleReset", NoItem, 0, <<>>, NoScore)
    /\ UNCHANGED <<mode, graphVars, draggedItem, itemScores, rankedItemIds,
                   activeSliderItemId, sortedItemOrder, inserts>>

TierReset ==
    /\ mode = "tier"
    /\ entities' = <<rankListEntity>> \o initialItemEntities
    /\ relations' = <<>>
    /\ last' = Event("handleReset", NoItem, 0, <<>>, NoScore)
    /\ UNCHANGED <<mode, graphVars, draggedItem, itemScores, rankedItemIds,
                   activeSliderItemId, sortedItemOrder, inserts>>

\* ================================================================ free page
IsDigit(c) == c \in {"0", "1", "2", "3", "4", "5", "6", "7", "8", "9"}

DigitVal(c) ==
    CASE c = "0" -> 0 [] c = "1" -> 1 [] c = "2" -> 2 [] c = "3" -> 3
      [] c = "4" -> 4 [] c = "5" -> 5 [] c = "6" -> 6 [] c = "7" -> 7
      [] c = "8" -> 8 [] c = "9" -> 9

\* Length of the longest run of digits of s starting at position p.
RECURSIVE DigitRun(_, _)
DigitRun(s, p) ==
    IF p <= Len(s) /\ IsDigit(s[p]) THEN 1 + DigitRun(s, p + 1) ELSE 0

RECURSIVE DigitsValue(_, _, _)
DigitsValue(s, p, n) ==
    IF n = 0 THEN 0
    ELSE DigitsValue(s, p, n - 1) * 10 + DigitVal(s[p + n - 1])

RECURSIVE SkipSpaces(_, _)
SkipSpaces(s, p) ==
    IF p <= Len(s) /\ s[p] = " " THEN SkipSpaces(s, p + 1) ELSE p

\* parseFloat on a decimal text without exponent: leading blanks, an
\* optional sign, digits, an optional fraction; whatever follows the longest
\* numeric prefix is ignored; NaN when there is no digit.  The result is in
\* hundredths (texts carry at most two fraction digits).
parseFloat(s) ==
    LET p0 == SkipSpaces(s, 1)
        neg == p0 <= Len(s) /\ s[p0] = "-"
        p1 == IF p0 <= Len(s) /\ s[p0] \in {"-", "+"} THEN p0 + 1 ELSE p0
        nInt == DigitRun(s, p1)
        p2 == p1 + nInt
        hasDot == p2 <= Len(s) /\ s[p2] = "."
        nFrac == IF hasDot THEN DigitRun(s, p2 + 1) ELSE 0
        intPart == DigitsValue(s, p1, nInt)
        fracPart ==
            IF nFrac = 0 THEN 0
            ELSE IF nFrac = 1 THEN DigitVal(s[p2 + 1]) * 10
            ELSE DigitVal(s[p2 + 1]) * 10 + DigitVal(s[p2 + 2])
        magnitude == intPart * 100 + fracPart
    IN  IF nInt = 0 /\ nFrac = 0 THEN NaN
        ELSE IF neg THEN 0 - magnitude ELSE magnitude

FreeAcceptsValue_anyNumber(numValue) == numValue /= NaN

FreeAcceptsValue(numValue) == numValue /= NaN /\ numValue >= 0

FreeScoreChangeScores(scores, itemId, value) ==
    IF value = <<>>
    THEN MapDelete(scores, itemId)
    ELSE LET numValue == parseFloat(value)
         IN  IF FreeAcceptsValue(numValue)
             THEN MapSet(scores, itemId, numValue)
             ELSE scores

FreeDragStart(item) ==
    /\ mode = "free"
    /\ draggedItem' = item
    /\ last' = Event("handleDragStart", item, 0, <<>>, NoScore)
    /\ UNCHANGED <<mode, entities, graphVars, relations, itemScores, rankedItemIds,
                   activeSliderItemId, sortedItemOrder, inserts>>

FreeDropToRanked_alwaysDefault ==
    /\ mode = "free"
    /\ draggedItem /= NoItem
    /\ rankedItemIds' = rankedItemIds \cup {draggedItem}
    /\ itemScores' = MapSet(itemScores, draggedItem, FreeDefaultScore)
    /\ draggedItem' = NoItem
    /\ last' = Event("handleDropToRanked", draggedItem, 0, <<>>, NoScore)
    /\ UNCHANGED <<mode, entities, graphVars, relations, activeSliderItemId,
                   sortedItemOrder, inserts>>

FreeDropToRanked ==
    /\ mode = "free"
    /\ draggedItem /= NoItem
    /\ IF draggedItem \notin rankedItemIds
       THEN /\ rankedItemIds' = rankedItemIds \cup {draggedItem}
            /\ itemScores' = IF ~MapHas(itemScores, draggedItem)
                             THEN MapSet(itemScores, draggedItem, FreeDefaultScore)
                             ELSE itemScores
       ELSE UNCHANGED <<rankedItemIds, itemScores>>
    /\ draggedItem' = NoItem
    /\ last' = Event("handleDropToRanked", draggedItem, 0, <<>>, NoScore)
    /\ UNCHANGED <<mode, entities, graphVars, relations, activeSliderItemId,
                   sortedItemOrder, inserts>>

FreeDropToUnranked_keepScore ==
    /\ mode = "free"
    /\ draggedItem /= NoItem
    /\ rankedItemIds' = rankedItemIds \ {draggedItem}
    /\ draggedItem' = NoItem
    /\ last' = Event("handleDropToUnranked", draggedItem, 0, <<>>, NoScore)
    /\ UNCHANGED <<mode, entities, graphVars, relations, itemScores, activeSliderItemId,
                   sortedItemOrder, inserts>>

FreeDropToUnranked ==
    /\ mode = "free"
    /\ draggedItem /= NoItem
    /\ rankedItemIds' = rankedItemIds \ {draggedItem}
    /\ itemScores' = MapDelete(itemScores, draggedItem)
    /\ draggedItem' = NoItem
    /\ last' = Event("handleDropToUnranked", draggedItem, 0, <<>>, NoScore)
    /\ UNCHANGED <<mode, entities, graphVars, relations, activeSliderItemId,
                   sortedItemOrder, inserts>>

\* The score input is rendered for the ranked items only.
FreeScoreChange(itemId, value) ==
    /\ mode = "free"
    /\ itemId \in rankedItemIds
    /\ itemScores' = FreeScoreChangeScores(itemScores, itemId, value)
    /\ last' = Event("handleScoreChange", itemId, 0, value, NoScore)
    /\ UNCHANGED <<mode, entities, graphVars, draggedItem, relations, rankedItemIds,
                   activeSliderItemId, sortedItemOrder, inserts>>

FreeReset ==
    /\ mode = "free"
    /\ itemScores' = EmptyMap
    /\ rankedItemIds' = {}
    /\ last' = Event("handleReset", NoItem, 0, <<>>, NoScore)
    /\ UNCHANGED <<mode, entities, graphVars, draggedItem, relations,
                   activeSliderItemId, sortedItemOrder, inserts>>

\* ============================================================== slider page
\* itemScores.get(id) || 50 of the sort comparators
ScoreOr50(scores, id) ==
    IF MapHas(scores, id) /\ scores[id] /= 0 THEN scores[id] ELSE FallbackScore

\* initialItems.filter(item => rankedIds.has(item.id)).sort((a, b) =>
\* scoreB - scoreA): Array.prototype.sort is stable, so equal scores keep
\* the catalog order.
SortDesc(rankedIds, scores) ==
    LET Before(j, i) ==
            \/ ScoreOr50(scores, j) > ScoreOr50(scores, i)
            \/ ScoreOr50(scores, j) = ScoreOr50(scores, i) /\ j < i
        Pos(i) == 1 + Cardinality({j \in rankedIds : Before(j, i)})
    IN  [p \in 1..Cardinality(rankedIds) |-> CHOOSE i \in rankedIds : Pos(i) = p]

updateSortedOrder(rankedIds, scores) == SortDesc(rankedIds, scores)

getRankedItems == SortDesc(rankedItemIds, itemScores)

getUnrankedItems == {i \in Items : i \notin rankedItemIds}

sortedRankedItems_alwaysFresh == SortDesc(rankedItemIds, itemScores)

\* The list rendered in the ranked area.
sortedRankedItems ==
    IF activeSliderItemId /= NoItem
    THEN sortedItemOrder
    ELSE SortDesc(rankedItemIds, itemScores)

Range(s) == {s[k] : k \in 1..Len(s)}

\* findIndex, 1-based, 0 when absent (JavaScript: 0-based, -1 when absent).
IndexOf(s, x) ==
    IF x \in Range(s) THEN CHOOSE k \in 1..Len(s) : s[k] = x ELSE 0

\* Math.round(((a + b) / 2) * 100) / 100 on scores a, b given in
\* hundredths.  The result is exact when a + b is even.  When the midpoint
\* falls on half a hundredth the error of the double arithmetic decides
\* which neighbour comes out ((1.00 + 1.01) / 2 gives 1.00,
\* (1.01 + 1.02) / 2 gives 1.02), so both are admitted.
Round2Mid(a, b) ==
    IF (a + b) % 2 = 0 THEN {(a + b) \div 2}
    ELSE {(a + b) \div 2, (a + b) \div 2 + 1}

\* Math.round(value * 100) / 100 on a value given in thousandths; a value
\* on half a hundredth goes to either neighbour for the same reason.
Round2(value) ==
    IF value % 10 = 5 THEN {value \div 10, value \div 10 + 1}
    ELSE {(value + 5) \div 10}

\* ---- handleDropToRanked
\* The scores the handler can assign: 1 when the score map is empty, else
\* the midpoint of 1 and the smallest value of the score map.
DefaultScoreChoices_fromZero(scores) ==
    IF MapValues(scores) = {} THEN {0}
    ELSE Round2Mid(0, SetMin(MapValues(scores)))

DefaultScoreChoices(scores) ==
    IF MapValues(scores) = {} THEN {SliderMin}
    ELSE Round2Mid(SliderMin, SetMin(MapValues(scores)))

DropToRankedAssigns(d) ==
    d /= NoItem /\ d \notin rankedItemIds /\ ~MapHas(itemScores, d)

\* The state updates the handler queues, as a record from variable name to
\* new value, computed from the state of the current render.
DropToRankedWrites(d, scoreToAssign) ==
    IF d = NoItem THEN EmptyMap
    ELSE IF d \notin rankedItemIds
    THEN LET newRankedIds == rankedItemIds \cup {d}
             newScores == IF ~MapHas(itemScores, d)
                          THEN MapSet(itemScores, d, scoreToAssign)
                          ELSE itemScores
             common == [rankedItemIds |-> newRankedIds,
                        sortedItemOrder |-> updateSortedOrder(newRankedIds, newScores),
                        draggedItem |-> NoItem]
         IN  IF ~MapHas(itemScores, d)
             THEN [itemScores |-> newScores] @@ common
             ELSE common
    ELSE [draggedItem |-> NoItem]

\* ---- handleDropOnItem
DropOnItemInPosition(d, target) ==
    LET sortedItems == getRankedItems
        draggedIndex == IndexOf(sortedItems, d)
        targetIndex == IndexOf(sortedItems, target)
    IN  draggedIndex /= 0 /\ draggedIndex = targetIndex - 1

ItemAbove(target) ==
    LET sortedItems == getRankedItems
        targetIndex == IndexOf(sortedItems, target)
    IN  IF targetIndex > 1 THEN sortedItems[targetIndex - 1] ELSE NoItem

DropOnItemAssigns(d, target) ==
    /\ d /= NoItem
    /\ d /= target
    /\ ~DropOnItemInPosition(d, target)
    /\ ItemAbove(target) /= d

DropOnItemScoreChoices(d, target) ==
    LET itemAbove == ItemAbove(target)
        scoreBelow == IF MapHas(itemScores, target) THEN itemScores[target]
                      ELSE FallbackScore
        numAbove == IF MapHas(itemScores, itemAbove) THEN itemScores[itemAbove]
                    ELSE FallbackScore
    IN  IF itemAbove /= NoItem
        THEN Round2Mid(numAbove, scoreBelow)
        ELSE Round2Mid(SliderMax, scoreBelow)

DropOnItemWrites(d, target, scoreToAssign) ==
    IF d = NoItem \/ d = target
    THEN EmptyMap
    ELSE IF DropOnItemInPosition(d, target) \/ ItemAbove(target) = d
    THEN [draggedItem |-> NoItem]
    ELSE LET newScores == MapSet(itemScores, d, scoreToAssign)
             newRankedIds == IF d \in rankedItemIds THEN rankedItemIds
                             ELSE rankedItemIds \cup {d}
             common == [itemScores |-> newScores,
                        sortedItemOrder |-> updateSortedOrder(newRankedIds, newScores),
                        draggedItem |-> NoItem]
         IN  IF d \notin rankedItemIds
             THEN [rankedItemIds |-> newRankedIds] @@ common
             ELSE common

\* Commit of the queued updates of one event: a variable takes the value of
\* the last update queued for it and keeps its value when none was queued.
Commit(w) ==
    /\ itemScores' = IF "itemScores" \in DOMAIN w THEN w.itemScores ELSE itemScores
    /\ rankedItemIds' = IF "rankedItemIds" \in DOMAIN w THEN w.rankedItemIds
                        ELSE rankedItemIds
    /\ sortedItemOrder' = IF "sortedItemOrder" \in DOMAIN w THEN w.sortedItemOrder
                          ELSE sortedItemOrder
    /\ draggedItem' = IF "draggedItem" \in DOMAIN w THEN w.draggedItem
                      ELSE draggedItem

\* The scores the slider itself can set, and the default score 1.
SliderGrid == {SliderMin} \cup UNION {Round2(value) : value \in SliderValues}

\* Midpoint insertions can create new score values without end; at most
\* MaxInserts of the scores written by one event sequence lie off the
\* slider grid.
Budget(writes) ==
    LET offGrid == /\ "itemScores" \in DOMAIN writes
                   /\ \E id \in DOMAIN writes.itemScores :
                         /\ writes.itemScores[id] \notin SliderGrid
                         /\ writes.itemScores[id] /= MapGet(itemScores, id)
    IN  /\ offGrid => inserts < MaxInserts
        /\ inserts' = IF offGrid THEN inserts + 1 ELSE inserts

SliderDragStart(item) ==
    /\ mode = "slider"
    /\ item \in Range(sortedRankedItems) \cup getUnrankedItems
    /\ draggedItem' = item
    /\ last' = Event("handleDragStart", NoItem, 0, <<>>, NoScore)
    /\ UNCHANGED <<mode, entities, graphVars, relations, itemScores, rankedItemIds,
                   activeSliderItemId, sortedItemOrder, inserts>>

\* Drop on the ranked area outside every ranked item.
SliderDropToRanked ==
    /\ mode = "slider"
    /\ draggedItem /= NoItem
    /\ \E scoreToAssign \in DefaultScoreChoices(itemScores) :
          LET writes == DropToRankedWrites(draggedItem, scoreToAssign)
          IN  Commit(writes) /\ Budget(writes)
    /\ last' = Event("handleDropToRanked", NoItem, 0, <<>>, NoScore)
    /\ UNCHANGED <<mode, entities, graphVars, relations, activeSliderItemId>>

\* Drop on a ranked item.  The item's element lies inside the ranked area
\* and neither handler stops the propagation, so the drop event runs
\* handleDropOnItem(target) and then handleDropToRanked(), both on the state
\* of the same render; the updates they queue are committed together.
SliderDropOnItem(target) ==
    /\ mode = "slider"
    /\ target \in Range(sortedRankedItems)
    /\ \E onItemScore \in DropOnItemScoreChoices(draggedItem, target) :
       \E defaultScore \in DefaultScoreChoices(itemScores) :
          LET writes == DropToRankedWrites(draggedItem, defaultScore)
                        @@ DropOnItemWrites(draggedItem, target, onItemScore)
          IN  Commit(writes) /\ Budget(writes)
    /\ last' = Event("handleDropOnItem", draggedItem, target, <<>>, NoScore)
    /\ UNCHANGED <<mode, entities, graphVars, relations, activeSliderItemId>>

SliderDropToUnranked_onlyIfRanked ==
    /\ mode = "slider"
    /\ draggedItem /= NoItem
    /\ IF draggedItem \in rankedItemIds
       THEN LET newRankedIds == rankedItemIds \ {draggedItem}
                newScores == MapDelete(itemScores, draggedItem)
            IN  /\ rankedItemIds' = newRankedIds
                /\ itemScores' = newScores
                /\ sortedItemOrder' = updateSortedOrder(newRankedIds, newScores)
                /\ draggedItem' = NoItem
       ELSE UNCHANGED <<rankedItemIds, itemScores, sortedItemOrder, draggedItem>>
    /\ last' = Event("handleDropToUnranked", NoItem, 0, <<>>, NoScore)
    /\ UNCHANGED <<mode, entities, graphVars, relations, activeSliderItemId, inserts>>

SliderDropToUnranked ==
    /\ mode = "slider"
    /\ draggedItem /= NoItem
    /\ LET newRankedIds == rankedItemIds \ {draggedItem}
           newScores == MapDelete(itemScores, draggedItem)
       IN  /\ rankedItemIds' = newRankedIds
           /\ itemScores' = newScores
           /\ sortedItemOrder' = updateSortedOrder(newRankedIds, newScores)
    /\ draggedItem' = NoItem
    /\ last' = Event("handleDropToUnranked", NoItem, 0, <<>>, NoScore)
    /\ UNCHANGED <<mode, entities, graphVars, relations, activeSliderItemId, inserts>>

SliderScoreChangeScores(scores, itemId, roundedValue) ==
    MapSet(scores, itemId, roundedValue)

handleScoreChange(itemId, value) ==
    /\ mode = "slider"
    /\ \E roundedValue \in Round2(value) :
          itemScores' = SliderScoreChangeScores(itemScores, itemId, roundedValue)
    /\ last' = Event("handleScoreChange", NoItem, 0, <<>>, NoScore)
    /\ UNCHANGED <<mode, entities, graphVars, draggedItem, relations, rankedItemIds,
                   activeSliderItemId, sortedItemOrder, inserts>>

\* onChange of the slider rendered for an item of the ranked area; the
\* widget keeps the value between its min and max.
SliderScoreChange(itemId, value) ==
    /\ itemId \in Range(sortedRankedItems)
    /\ handleScoreChange(itemId, value)

handleSliderChangeStart(itemId) ==
    /\ mode = "slider"
    /\ itemId \in Range(sortedRankedItems)
    /\ activeSliderItemId' = itemId
    /\ last' = Event("handleSliderChangeStart", NoItem, 0, <<>>, NoScore)
    /\ UNCHANGED <<mode, entities, graphVars, draggedItem, relations, itemScores,
                   rankedItemIds, sortedItemOrder, inserts>>

handleSliderChangeEnd ==
    /\ mode = "slider"
    /\ sortedRankedItems /= <<>>
    /\ activeSliderItemId' = NoItem
    /\ sortedItemOrder' = updateSortedOrder(rankedItemIds, itemScores)
    /\ last' = Event("handleSliderChangeEnd", NoItem, 0, <<>>, NoScore)
    /\ UNCHANGED <<mode, entities, graphVars, draggedItem, relations, itemScores,
                   rankedItemIds, inserts>>

SliderReset ==
    /\ mode = "slider"
    /\ itemScores' = EmptyMap
    /\ rankedItemIds' = {}
    /\ last' = Event("handleReset", NoItem, 0, <<>>, NoScore)
    /\ UNCHANGED <<mode, entities, graphVars, draggedItem, relations,
                   activeSliderItemId, sortedItemOrder, inserts>>

\* ============================================================ graph builder
\* Values of crypto.randomUUID() for relation ids.
UUIDs == {"u1", "u2", "u3"}

\* The sequences of n distinct elements of S.
Injections(n, S) ==
    {f \in [1..n -> S] : \A a, b \in 1..n : a /= b => f[a] /= f[b]}

\* The free page's buildGraph also asks for score >= 0.
BuildIncludes(scores, itemId) ==
    /\ MapHas(scores, itemId)
    /\ mode = "free" => scores[itemId] >= 0

buildGraph_allScored ==
    LET scored == DOMAIN itemScores
        n == Cardinality(scored)
    IN  {[entities |-> <<rankListEntity>> \o initialItemEntities,
          relations |-> [k \in 1..n |->
                           [id |-> ids[k], from |-> rankListEntity.id,
                            to |-> order[k], score |-> itemScores[order[k]]]]] :
            order \in Injections(n, scored), ids \in Injections(n, UUIDs)}

buildGraph_freshRankList ==
    LET scored == {itemId \in rankedItemIds : BuildIncludes(itemScores, itemId)}
        n == Cardinality(scored)
    IN  {[entities |-> <<[rankListEntity EXCEPT !.id = ids[n + 1]]>>
                          \o initialItemEntities,
          relations |-> [k \in 1..n |->
                           [id |-> ids[k], from |-> ids[n + 1],
                            to |-> order[k], score |-> itemScores[order[k]]]]] :
            order \in Injections(n, scored), ids \in Injections(n + 1, UUIDs \cup {"u4"})}

\* The graphs buildGraph() of the free and slider pages can return in the
\* current state.
buildGraph ==
    LET scored == {itemId \in rankedItemIds : BuildIncludes(itemScores, itemId)}
        n == Cardinality(scored)
    IN  {[entities |-> <<rankListEntity>> \o initialItemEntities,
          relations |-> [k \in 1..n |->
                           [id |-> ids[k], from |-> rankListEntity.id,
                            to |-> order[k], score |-> itemScores[order[k]]]]] :
            order \in Injections(n, scored), ids \in Injections(n, UUIDs)}

\* The values the tier page's graph state can have.
tierGraph ==
    {[entities |-> entities,
      relations |-> [k \in 1..Len(relations) |->
                       [id |-> ids[k], from |-> relations[k].from,
                        to |-> relations[k].to, score |-> relations[k].score]]] :
        ids \in Injections(Len(relations), UUIDs)}

\* The knowledge graphs of the page in the current state.
KnowledgeGraphs == IF mode = "tier" THEN tierGraph ELSE buildGraph

\* ================================================== property graph converter
\* 'rank_type' in entity && entity.rank_type === 'weighted_rank'
IsRankList(entity) ==
    "rank_type" \in DOMAIN entity /\ entity.rank_type = "weighted_rank"

PropertyEntity_keepsEmoji(entity) ==
    IF IsRankList(entity)
    THEN [id |-> entity.id,
          properties |-> [name |-> entity.name, rank_type |-> entity.rank_type]]
    ELSE IF "emoji" \in DOMAIN entity
    THEN [id |-> entity.id,
          properties |-> [name |-> entity.name, emoji |-> entity.emoji]]
    ELSE [id |-> entity.id, properties |-> EmptyRecord]

PropertyEntity(entity) ==
    IF IsRankList(entity)
    THEN [id |-> entity.id,
          properties |-> [name |-> entity.name, rank_type |-> entity.rank_type]]
    ELSE IF "emoji" \in DOMAIN entity
    THEN [id |-> entity.id, properties |-> [name |-> entity.name]]
    ELSE [id |-> entity.id, properties |-> EmptyRecord]

PropertyRelation(relation) ==
    [id |-> relation.id, from |-> relation.from, to |-> relation.to,
     properties |-> [score |-> relation.score]]

convertToPropertyGraph(graph) ==
    [entities |-> [k \in 1..Len(graph.entities) |->
                     PropertyEntity(graph.entities[k])],
     relations |-> [k \in 1..Len(graph.relations) |->
                      PropertyRelation(graph.relations[k])]]

\* ================================================ protocol operation encoder
\* Property values are texts; a text is read character by character.
Chars(text) ==
    CASE text = "Movies" -> <<"M", "o", "v", "i", "e", "s">>
      [] text = "2024-01-01T10:00" ->
            <<"2", "0", "2", "4", "-", "0", "1", "-", "0", "1", "T",
              "1", "0", ":", "0", "0">>
      [] text = "weighted_rank" ->
            <<"w", "e", "i", "g", "h", "t", "e", "d", "_", "r", "a", "n", "k">>
      [] text = "list" -> <<"l", "i", "s", "t">>
      [] text = "other" -> <<"o", "t", "h", "e", "r">>
      [] text = "bare" -> <<"b", "a", "r", "e">>
      [] text = "item1" -> <<"i", "t", "e", "m", "1">>
      [] text = "item2" -> <<"i", "t", "e", "m", "2">>
      [] text = "item3" -> <<"i", "t", "e", "m", "3">>

\* /^\d{4}-\d{2}-\d{2}T/.test(value)
IsoDatePattern == <<"d", "d", "d", "d", "-", "d", "d", "-", "d", "d", "T">>

MatchesIsoDate(s) ==
    /\ Len(s) >= Len(IsoDatePattern)
    /\ \A k \in 1..Len(IsoDatePattern) :
          IF IsoDatePattern[k] = "d" THEN IsDigit(s[k])
          ELSE s[k] = IsoDatePattern[k]

\* getDataType on a text value (the only values of the rank list's
\* properties).
getDataType(value) ==
    IF MatchesIsoDate(Chars(value)) THEN "TIME" ELSE "STRING"

DigitChar(n) ==
    CASE n = 0 -> "0" [] n = 1 -> "1" [] n = 2 -> "2" [] n = 3 -> "3"
      [] n = 4 -> "4" [] n = 5 -> "5" [] n = 6 -> "6" [] n = 7 -> "7"
      [] n = 8 -> "8" [] n = 9 -> "9"

\* String(n) for a whole, non-negative number.
RECURSIVE NumberToString(_)
NumberToString(n) ==
    IF n < 10 THEN <<DigitChar(n)>>
    ELSE NumberToString(n \div 10) \o <<DigitChar(n % 10)>>

\* String(score): tier scores are whole numbers; the scores of the free and
\* slider pages are held in hundredths and print without trailing zeros.
ScoreToString(score) ==
    IF mode = "tier" THEN NumberToString(score)
    ELSE LET frac == score % 100
         IN  NumberToString(score \div 100) \o
             (IF frac = 0 THEN <<>>
              ELSE IF frac % 10 = 0 THEN <<".", DigitChar(frac \div 10)>>
              ELSE <<".", DigitChar(frac \div 10), DigitChar(frac % 10)>>)

\* ---- the protocol library (@graphprotocol/grc-20)
\* IdUtils.generate(): the n-th identifier generated during one call.
IdUtilsGenerate(n) == <<"grc20", n>>

\* Graph.createProperty, Graph.createEntity and Graph.createRelation return
\* the id and the operations to append: one operation per call.
GraphCreateProperty(id, name, dataType) ==
    [id |-> id,
     ops |-> <<[type |-> "CREATE_PROPERTY",
                property |-> [id |-> id, name |-> name, dataType |-> dataType]]>>]

GraphCreateEntity(id, values) ==
    [id |-> id,
     ops |-> <<[type |-> "CREATE_ENTITY",
                entity |-> [id |-> id, values |-> values]]>>]

GraphCreateRelation(id, fromEntity, toEntity, type, entityValues) ==
    [id |-> id,
     ops |-> <<[type |-> "CREATE_RELATION",
                relation |-> [id |-> id, fromEntity |-> fromEntity,
                              toEntity |-> toEntity, type |-> type,
                              entityValues |-> entityValues]]>>]

\* ---- prepareGRC20Edits
\* result.ops.forEach(op => allOps.push({...op, _description}))
Described(ops, description) ==
    [k \in 1..Len(ops) |-> [op |-> ops[k], _description |-> description]]

\* The local state of one call: the operations so far, the property cache,
\* the id mapping, the three counters, the number of ids generated and the
\* values collected for the rank list.
EncoderStart ==
    [allOps |-> <<>>, createdProperties |-> EmptyMap, entityIdMap |-> EmptyMap,
     entityOpCount |-> 0, propertyOpCount |-> 0, relationOpCount |-> 0,
     generated |-> 0, values |-> <<>>]

Generate(acc) == [acc EXCEPT !.generated = @ + 1]

LastId(acc) == IdUtilsGenerate(acc.generated)

getOrCreateProperty_uncounted(acc, name, dataType) ==
    LET key == <<name, dataType>>
    IN  IF MapHas(acc.createdProperties, key) THEN acc
        ELSE LET made == Generate(acc)
                 result == GraphCreateProperty(LastId(made), name, dataType)
             IN  [made EXCEPT
                    !.createdProperties = MapSet(@, key, result.id),
                    !.allOps = @ \o Described(result.ops,
                                   <<"Create property", name, dataType>>)]

getOrCreateProperty(acc, name, dataType) ==
    LET key == <<name, dataType>>
    IN  IF MapHas(acc.createdProperties, key) THEN acc
        ELSE LET made == Generate(acc)
                 result == GraphCreateProperty(LastId(made), name, dataType)
             IN  [made EXCEPT
                    !.createdProperties = MapSet(@, key, result.id),
                    !.allOps = @ \o Described(result.ops,
                                   <<"Create property", name, dataType>>),
                    !.propertyOpCount = @ + Len(result.ops)]

\* The ids assumed for name, rank_type, ranks and score; name and rank_type
\* enter the property cache as texts.
namePropertyId == IdUtilsGenerate(1)
rankTypePropertyId == IdUtilsGenerate(2)
ranksPropertyId == IdUtilsGenerate(3)
scorePropertyId == IdUtilsGenerate(4)

AssumeProperties(acc) ==
    [acc EXCEPT
       !.generated = @ + 4,
       !.createdProperties =
           MapSet(MapSet(@, <<"name", "STRING">>, namePropertyId),
                  <<"rank_type", "STRING">>, rankTypePropertyId)]

IsTierList(e) ==
    "rank_type" \in DOMAIN e.properties /\ e.properties.rank_type = "weighted_rank"

\* for (const itemEntity of itemEntities): an id for every entity that is
\* not a rank list, from position k on.
RECURSIVE MapItemEntities(_, _, _)
MapItemEntities(acc, graph, k) ==
    IF k > Len(graph.entities) THEN acc
    ELSE IF IsTierList(graph.entities[k]) THEN MapItemEntities(acc, graph, k + 1)
    ELSE LET made == Generate(acc)
         IN  MapItemEntities(
                 [made EXCEPT !.entityIdMap =
                     MapSet(@, graph.entities[k].id, LastId(made))],
                 graph, k + 1)

\* Object.entries(properties): the keys in the order the converter wrote
\* them.
PropertyOrder == <<"name", "rank_type">>

RECURSIVE TierListValues(_, _, _)
TierListValues(acc, properties, k) ==
    IF k > Len(PropertyOrder) THEN acc
    ELSE IF PropertyOrder[k] \notin DOMAIN properties
    THEN TierListValues(acc, properties, k + 1)
    ELSE LET attrName == PropertyOrder[k]
             attrValue == properties[attrName]
             dataType == getDataType(attrValue)
             got == getOrCreateProperty(acc, attrName, dataType)
             propertyId == got.createdProperties[<<attrName, dataType>>]
         IN  TierListValues(
                 [got EXCEPT !.values =
                     Append(@, [property |-> propertyId, value |-> attrValue])],
                 properties, k + 1)

\* graph.entities.find(rank list): its position, 0 when there is none.
TierListIndex(graph) ==
    IF \E k \in 1..Len(graph.entities) : IsTierList(graph.entities[k])
    THEN CHOOSE k \in 1..Len(graph.entities) :
            /\ IsTierList(graph.entities[k])
            /\ \A j \in 1..(k - 1) : ~IsTierList(graph.entities[j])
    ELSE 0

CreateTierList_ownId(acc, graph) ==
    IF TierListIndex(graph) = 0 THEN acc
    ELSE LET tierListEntity == graph.entities[TierListIndex(graph)]
             made == Generate(acc)
             tierListGrc20Id == LastId(made)
             mapped == [made EXCEPT !.entityIdMap =
                           MapSet(@, tierListEntity.id, tierListGrc20Id)]
             valued == Generate(TierListValues(mapped, tierListEntity.properties, 1))
             entityResult == GraphCreateEntity(LastId(valued), valued.values)
         IN  [valued EXCEPT
                !.allOps = @ \o Described(entityResult.ops,
                               <<"Create TierList entity",
                                 tierListEntity.properties.name>>),
                !.entityOpCount = @ + Len(entityResult.ops)]

CreateTierList_unmapped(acc, graph) ==
    IF TierListIndex(graph) = 0 THEN acc
    ELSE LET tierListEntity == graph.entities[TierListIndex(graph)]
             made == Generate(acc)
             tierListGrc20Id == LastId(made)
             valued == TierListValues(made, tierListEntity.properties, 1)
             entityResult == GraphCreateEntity(tierListGrc20Id, valued.values)
         IN  [valued EXCEPT
                !.allOps = @ \o Described(entityResult.ops,
                               <<"Create TierList entity",
                                 tierListEntity.properties.name>>),
                !.entityOpCount = @ + Len(entityResult.ops)]

\* if (tierListEntity) { ... }: the rank list is mapped, its values are
\* collected and its create-entity operation is appended.
CreateTierList(acc, graph) ==
    IF TierListIndex(graph) = 0 THEN acc
    ELSE LET tierListEntity == graph.entities[TierListIndex(graph)]
             made == Generate(acc)
             tierListGrc20Id == LastId(made)
             mapped == [made EXCEPT !.entityIdMap =
                           MapSet(@, tierListEntity.id, tierListGrc20Id)]
             valued == TierListValues(mapped, tierListEntity.properties, 1)
             entityResult == GraphCreateEntity(tierListGrc20Id, valued.values)
         IN  [valued EXCEPT
                !.allOps = @ \o Described(entityResult.ops,
                               <<"Create TierList entity",
                                 tierListEntity.properties.name>>),
                !.entityOpCount = @ + Len(entityResult.ops)]

\* tierMetadata.find(t => t.score === score)?.label || score
TierLabel(score) ==
    LET unit == IF mode = "tier" THEN 1 ELSE 100
    IN  CASE score = 6 * unit -> <<"S">> [] score = 5 * unit -> <<"A">>
          [] score = 4 * unit -> <<"B">> [] score = 3 * unit -> <<"C">>
          [] score = 2 * unit -> <<"D">> [] score = 1 * unit -> <<"F">>
          [] OTHER -> ScoreToString(score)

\* graph.entities.find(e => e.id === relation.to)?.properties.name || 'Unknown'
ItemNameOf(graph, id) ==
    IF \E k \in 1..Len(graph.entities) : graph.entities[k].id = id
    THEN LET first == CHOOSE k \in 1..Len(graph.entities) :
                         /\ graph.entities[k].id = id
                         /\ \A j \in 1..(k - 1) : graph.entities[j].id /= id
             properties == graph.entities[first].properties
         IN  IF "name" \in DOMAIN properties /\ properties.name /= ""
             THEN properties.name ELSE "Unknown"
    ELSE "Unknown"

RelationDescription(graph, relation) ==
    <<"Rank", ItemNameOf(graph, relation.to), "as tier",
      TierLabel(relation.properties.score), "score",
      ScoreToString(relation.properties.score)>>

EncodeRelation_noSkip(acc, graph, relation) ==
    LET made == Generate(acc)
        grc20RelationId == LastId(made)
        fromGrc20Id == IF MapHas(made.entityIdMap, relation.from)
                       THEN made.entityIdMap[relation.from] ELSE <<"undefined">>
        toGrc20Id == IF MapHas(made.entityIdMap, relation.to)
                     THEN made.entityIdMap[relation.to] ELSE <<"undefined">>
        entityValues ==
            IF "score" \in DOMAIN relation.properties
            THEN <<[property |-> scorePropertyId,
                    value |-> ScoreToString(relation.properties.score)]>>
            ELSE <<>>
        relationResult == GraphCreateRelation(grc20RelationId, fromGrc20Id,
                              toGrc20Id, ranksPropertyId, entityValues)
    IN  [made EXCEPT
           !.allOps = @ \o Described(relationResult.ops,
                          RelationDescription(graph, relation)),
           !.relationOpCount = @ + Len(relationResult.ops)]

\* One turn of the loop over graph.relations: an id is generated, the
\* relation is skipped when an end is not in the mapping, otherwise its
\* create-relation operation is appended.
EncodeRelation(acc, graph, relation) ==
    LET made == Generate(acc)
        grc20RelationId == LastId(made)
    IN  IF ~MapHas(made.entityIdMap, relation.from)
           \/ ~MapHas(made.entityIdMap, relation.to)
        THEN made
        ELSE LET fromGrc20Id == made.entityIdMap[relation.from]
                 toGrc20Id == made.entityIdMap[relation.to]
                 entityValues ==
                     IF "score" \in DOMAIN relation.properties
                     THEN <<[property |-> scorePropertyId,
                             value |-> ScoreToString(relation.properties.score)]>>
                     ELSE <<>>
                 relationResult ==
                     GraphCreateRelation(grc20RelationId, fromGrc20Id,
                         toGrc20Id, ranksPropertyId, entityValues)
             IN  [made EXCEPT
                    !.allOps = @ \o Described(relationResult.ops,
                                   RelationDescription(graph, relation)),
                    !.relationOpCount = @ + Len(relationResult.ops)]

RECURSIVE EncodeRelations(_, _, _)
EncodeRelations(acc, graph, k) ==
    IF k > Len(graph.relations) THEN acc
    ELSE EncodeRelations(EncodeRelation(acc, graph, graph.relations[k]),
                         graph, k + 1)

\* Titles handed to prepareGRC20Edits; "" stands for no title.
Titles == {"", "Top Movies"}

\* The local state at the end of the try block of one call.
EncoderRun(graph) ==
    EncodeRelations(
        CreateTierList(
            MapItemEntities(AssumeProperties(EncoderStart), graph, 1),
            graph),
        graph, 1)

\* The value prepareGRC20Edits(graph, {title}) returns.
prepareGRC20Edits(graph, title) ==
    LET acc == EncoderRun(graph)
    IN  [edit |-> [name |-> IF title /= "" THEN title ELSE "Tier List Rank",
                   ops |-> acc.allOps],
         summary |-> [totalOps |-> Len(acc.allOps),
                      entityOps |-> acc.entityOpCount,
                      propertyOps |-> acc.propertyOpCount,
                      relationOps |-> acc.relationOpCount]]

\* ---- knowledge graphs given from outside
\* Entities: the rank list, two items, a rank list whose name reads as an
\* ISO date, an entity with another rank_type, and one with neither
\* rank_type nor emoji.
EntityInputs ==
    { rankListEntity, ItemEntity(1), ItemEntity(2),
      [id |-> 3, name |-> "2024-01-01T10:00", rank_type |-> "weighted_rank"],
      [id |-> 7, name |-> "other", rank_type |-> "list"],
      [id |-> 8, name |-> "bare"] }

\* Relations from the rank list to an item, and relations one end of which
\* is an id (4) of no entity.
RelationInputs ==
    { [from |-> RankListId, to |-> 1, score |-> 6],
      [from |-> RankListId, to |-> 1, score |-> 3],
      [from |-> RankListId, to |-> 4, score |-> 6],
      [from |-> 4, to |-> 1, score |-> 3] }

WithIds(rels) ==
    [k \in 1..Len(rels) |->
        [id |-> CASE k = 1 -> "u1" [] k = 2 -> "u2" [] OTHER -> "u3",
         from |-> rels[k].from,
         to |-> rels[k].to, score |-> rels[k].score]]

SeqsUpTo(S, n) == UNION {[1..k -> S] : k \in 0..n}

KnowledgeGraphInputs ==
    {[entities |-> es, relations |-> WithIds(rels)] :
        es \in SeqsUpTo(EntityInputs, MaxEntities),
        rels \in SeqsUpTo(RelationInputs, MaxRelations)}

\* =========================================================== specification
InitPage ==
    /\ mode \in Modes
    /\ draggedItem = NoItem
    /\ entities = IF mode = "tier" THEN <<rankListEntity>> \o initialItemEntities
                  ELSE <<>>
    /\ relations = <<>>
    /\ itemScores = EmptyMap
    /\ rankedItemIds = {}
    /\ activeSliderItemId = NoItem
    /\ sortedItemOrder = <<>>
    /\ inserts = 0
    /\ last = Event("init", NoItem, 0, <<>>, NoScore)

InitHook ==
    /\ prepared = NotPrepared
    /\ isPreparing = FALSE
    /\ showPublishModal = FALSE
    /\ pending = <<>>

Init ==
    /\ InitPage
    /\ kgraph = NoGraph
    /\ pgraph = NoGraph
    /\ InitHook

TierNext ==
    \/ \E item \in Items : TierDragStart(item)
    \/ \E targetScore \in TierScores \cup {NoScore} : handleDrop(targetScore)
    \/ TierReset

FreeNext ==
    \/ \E item \in Items : FreeDragStart(item)
    \/ FreeDropToRanked
    \/ FreeDropToUnranked
    \/ \E itemId \in Items : \E value \in FreeInputs : FreeScoreChange(itemId, value)
    \/ FreeReset

\* The slider page without the start of a slider interaction.
SliderDropNext ==
    \/ \E item \in Items : SliderDragStart(item)
    \/ SliderDropToRanked
    \/ \E target \in Items : SliderDropOnItem(target)
    \/ SliderDropToUnranked
    \/ \E itemId \in Items : \E value \in SliderValues : SliderScoreChange(itemId, value)
    \/ handleSliderChangeEnd
    \/ SliderReset

SliderNext ==
    \/ SliderDropNext
    \/ \E itemId \in Items : handleSliderChangeStart(itemId)

Next == TierNext \/ FreeNext \/ SliderNext

Spec == Init /\ [][Next]_vars

\* Every page, with no slider interaction ever started.
NextPlacement == TierNext \/ FreeNext \/ SliderDropNext

SpecPlacement == Init /\ [][NextPlacement]_vars

\* The handlers of the slider page called directly: place, unplace, reset,
\* and handleScoreChange with any value.
SliderScoreChangeRaw ==
    \E itemId \in Items : \E value \in RawValues :
        /\ itemId \in rankedItemIds
        /\ handleScoreChange(itemId, value)

NextHandlers ==
    \/ \E item \in Items : SliderDragStart(item)
    \/ SliderDropToRanked
    \/ SliderDropToUnranked
    \/ SliderReset
    \/ SliderScoreChangeRaw

InitHandlers == Init /\ mode = "slider"

SpecHandlers == InitHandlers /\ [][NextHandlers]_vars

\* The graph functions applied to knowledge graphs given from outside.
ConvertGraph ==
    /\ pgraph' = convertToPropertyGraph(kgraph)
    /\ last' = Event("convertToPropertyGraph", NoItem, 0, <<>>, NoScore)
    /\ UNCHANGED <<pageVars, kgraph, prepared, hookVars>>

\* handlePrepare: the graph is converted and encoded; the result and the
\* status are stored (with the title the call was given).
PrepareEdits ==
    /\ \E title \in Titles :
          /\ pgraph' = convertToPropertyGraph(kgraph)
          /\ prepared' = [status |-> "success", title |-> title,
                          data |-> prepareGRC20Edits(pgraph', title)]
          /\ last' = Event("prepareGRC20Edits", NoItem, 0, <<>>, NoScore)
    /\ UNCHANGED <<pageVars, kgraph, hookVars>>

InitGraph ==
    /\ InitPage
    /\ mode = "tier"
    /\ kgraph \in KnowledgeGraphInputs
    /\ pgraph = NoGraph
    /\ InitHook

NextGraph ==
    \/ ConvertGraph
    \/ PrepareEdits

SpecGraph == InitGraph /\ [][NextGraph]_vars

\* ---- the hook useGRC20, its encode call taken as asynchronous
\* prepareGRC20Edits is an async function that its callers await.  A call
\* is taken in two steps: its start (the two setters before the try block)
\* and its end (the try block with its catch and finally); calls that have
\* started end in any order.  The library may throw inside the try block.
HookGraphs ==
    { NoGraph,
      [entities |-> <<[id |-> 3, name |-> "2024-01-01T10:00",
                       rank_type |-> "weighted_rank"]>>,
       relations |-> <<>>],
      [entities |-> <<rankListEntity, ItemEntity(1)>>,
       relations |-> WithIds(<<[from |-> RankListId, to |-> 1, score |-> 6],
                               [from |-> RankListId, to |-> 1, score |-> 3]>>)] }

RemoveAt(s, k) == SubSeq(s, 1, k - 1) \o SubSeq(s, k + 1, Len(s))

PrepareStart(title) ==
    /\ Len(pending) < MaxRunning
    /\ isPreparing' = TRUE
    /\ prepared' = [prepared EXCEPT !.status = "idle"]
    /\ pending' = Append(pending, title)
    /\ pgraph' = convertToPropertyGraph(kgraph)
    /\ last' = Event("prepareGRC20Edits", NoItem, Len(pgraph'.relations), <<>>, NoScore)
    /\ UNCHANGED <<pageVars, kgraph, showPublishModal>>

\* The k-th call in progress ends with a result.
PrepareReturn(k) ==
    /\ k \in 1..Len(pending)
    /\ prepared' = [status |-> "success", title |-> pending[k],
                    data |-> prepareGRC20Edits(pgraph, pending[k])]
    /\ isPreparing' = FALSE
    /\ pending' = RemoveAt(pending, k)
    /\ last' = Event("return", NoItem, 0, <<>>, NoScore)
    /\ UNCHANGED <<pageVars, kgraph, pgraph, showPublishModal>>

\* The k-th call in progress ends in the catch block: the status is set,
\* the error is thrown again.
PrepareThrow(k) ==
    /\ k \in 1..Len(pending)
    /\ prepared' = [prepared EXCEPT !.status = "error"]
    /\ isPreparing' = FALSE
    /\ pending' = RemoveAt(pending, k)
    /\ last' = Event("throw", NoItem, 0, <<>>, NoScore)
    /\ UNCHANGED <<pageVars, kgraph, pgraph, showPublishModal>>

resetPreparedData ==
    /\ prepared' = NotPrepared
    /\ last' = Event("resetPreparedData", NoItem, 0, <<>>, NoScore)
    /\ UNCHANGED <<pageVars, kgraph, pgraph, hookVars>>

InitUseGRC20 ==
    /\ InitPage
    /\ mode = "tier"
    /\ kgraph \in HookGraphs
    /\ pgraph = NoGraph
    /\ InitHook

NextUseGRC20 ==
    \/ \E title \in Titles : PrepareStart(title)
    \/ \E k \in 1..MaxRunning : PrepareReturn(k)
    \/ \E k \in 1..MaxRunning : PrepareThrow(k)
    \/ resetPreparedData

SpecUseGRC20 == InitUseGRC20 /\ [][NextUseGRC20]_vars

\* ---- the Prepare button of the three pages
\* The publish modal lies over the page: the page's handlers run while it
\* is closed.  prepareGRC20Edits has no await in its body, so the call made
\* by handlePrepare ends within the click that made it.
getRankedCount == Cardinality(rankedItemIds)

\* graph.relations.length === 0 (tier), getRankedCount() === 0 (free, slider)
PrepareRejected ==
    IF mode = "tier" THEN Len(relations) = 0 ELSE getRankedCount = 0

\* handlePrepare: convert, encode with the rank list's name as title; the
\* call returns a result or throws.
handlePrepare ==
    \E g \in KnowledgeGraphs : \E thrown \in BOOLEAN :
        LET propertyGraph == convertToPropertyGraph(g)
            title == rankListEntity.name
        IN  /\ prepared' =
                  IF thrown THEN [prepared EXCEPT !.status = "error"]
                  ELSE [status |-> "success", title |-> title,
                        data |-> prepareGRC20Edits(propertyGraph, title)]
            /\ last' = Event("prepareGRC20Edits", NoItem,
                             Len(propertyGraph.relations), <<>>, NoScore)

handlePrepareClick_noGuard ==
    /\ ~showPublishModal
    /\ showPublishModal' = TRUE
    /\ handlePrepare
    /\ UNCHANGED <<pageVars, kgraph, pgraph, isPreparing, pending>>

handlePrepareClick ==
    /\ ~showPublishModal
    /\ IF PrepareRejected
       THEN /\ last' = Event("alert", NoItem, 0, <<>>, NoScore)
            /\ UNCHANGED <<prepared, showPublishModal>>
       ELSE /\ showPublishModal' = TRUE
            /\ handlePrepare
    /\ UNCHANGED <<pageVars, kgraph, pgraph, isPreparing, pending>>

\* The Try Again button, shown when no call is running and no batch is held.
TryAgain ==
    /\ showPublishModal
    /\ ~isPreparing
    /\ "data" \notin DOMAIN prepared
    /\ handlePrepare
    /\ UNCHANGED <<pageVars, kgraph, pgraph, hookVars>>

\* The overlay, the close button and the Done button.
CloseModal ==
    /\ showPublishModal
    /\ showPublishModal' = FALSE
    /\ prepared' = NotPrepared
    /\ last' = Event("resetPreparedData", NoItem, 0, <<>>, NoScore)
    /\ UNCHANGED <<pageVars, kgraph, pgraph, isPreparing, pending>>

\* The slider page's placing, unplacing and reset.
SliderPlaceNext ==
    \/ \E item \in Items : SliderDragStart(item)
    \/ SliderDropToRanked
    \/ SliderDropToUnranked
    \/ SliderReset

\* The free page with a score input that is blanked or set to 7.
FreePlaceNext ==
    \/ \E item \in Items : FreeDragStart(item)
    \/ FreeDropToRanked
    \/ FreeDropToUnranked
    \/ \E itemId \in Items : \E value \in {<<>>, <<"7">>} :
          FreeScoreChange(itemId, value)
    \/ FreeReset

NextPrepare ==
    \/ ~showPublishModal /\ TierNext
    \/ ~showPublishModal /\ FreePlaceNext
    \/ ~showPublishModal /\ SliderPlaceNext
    \/ handlePrepareClick
    \/ TryAgain
    \/ CloseModal

SpecPrepare == Init /\ [][NextPrepare]_vars

\* ================================================================== claims
Placed(i) ==
    IF mode = "tier" THEN i \notin getUnrankedItemsTier ELSE i \in rankedItemIds

HasScore(i) ==
    IF mode = "tier" THEN \E score \in TierScores : i \in getItemsForTierScore(score)
    ELSE MapHas(itemScores, i)

\* C1: on every page, after any sequence of place, unplace, score-set on a
\* placed item and reset, an item holds a score only if it is placed, and a
\* placed item holds a score unless it is a free-page item whose input was
\* blanked.
C1_PlacedIffScored ==
    \A i \in Items :
        /\ HasScore(i) => Placed(i)
        /\ (Placed(i) /\ ~HasScore(i)) => mode = "free"

C1_Witness ==
    /\ mode = "free"
    /\ last.op = "handleScoreChange"
    /\ last.text = <<>>
    /\ last.item \in rankedItemIds
    /\ ~MapHas(itemScores, last.item)

\* C2: on the tier page no item ever has more than one relation, and a drop
\* of an item into a tier leaves exactly one relation for it, carrying that
\* tier's score, also when the item sat in another tier before.
C2_OneTierPerItem ==
    mode = "tier" =>
        /\ \A i \in Items : Cardinality(RelationsTo(relations, i)) <= 1
        /\ (last.op = "handleDrop" /\ last.arg /= NoScore) =>
              /\ Cardinality(RelationsTo(relations, last.item)) = 1
              /\ \A k \in RelationsTo(relations, last.item) :
                    relations[k].score = last.arg

C2_Witness ==
    /\ mode = "tier"
    /\ last.op = "handleDrop"
    /\ last.was \in TierScores
    /\ last.arg \in TierScores
    /\ last.was /= last.arg
    /\ Len(relations) >= 2

RoundedMidpoint(x, a, b) == 2 * x - (a + b) \in {-1, 0, 1}

\* The drop of d on target changes nothing according to the claims: d is
\* the target, or d stands directly above the target in the descending
\* order.
NoOpDrop(d, target) ==
    LET order == SortDesc(rankedItemIds, itemScores)
    IN  \/ d = target
        \/ IndexOf(order, d) /= 0 /\ IndexOf(order, d) = IndexOf(order, target) - 1

\* C4: a drop of the dragged item on a ranked target, outside the no-op
\* cases, gives the dragged item the rounded midpoint of the target's score
\* and the score of the item directly above the target (of 100 when the
\* target is first), and changes no other score.
C4_MidpointLaw ==
    [][\A target \in Items :
        (/\ SliderDropOnItem(target)
         /\ draggedItem /= NoItem
         /\ target \in rankedItemIds
         /\ ~NoOpDrop(draggedItem, target))
        => LET order == SortDesc(rankedItemIds, itemScores)
               k == IndexOf(order, target)
               below == itemScores[target]
               above == IF k = 1 THEN 10000 ELSE itemScores[order[k - 1]]
           IN  /\ MapHas(itemScores', draggedItem)
               /\ RoundedMidpoint(itemScores'[draggedItem], above, below)
               /\ \A i \in Items \ {draggedItem} :
                     MapGet(itemScores', i) = MapGet(itemScores, i)]_vars

\* C5: a drop of an unplaced item on the ranked area gives it the rounded
\* midpoint of 1 and the smallest score of the placed items, and exactly 1
\* when no item is placed.
C5_DefaultPlacement ==
    [][(SliderDropToRanked /\ draggedItem \notin rankedItemIds)
        => LET placedScores == {itemScores[i] : i \in rankedItemIds}
           IN  /\ MapHas(itemScores', draggedItem)
               /\ IF placedScores = {}
                  THEN itemScores'[draggedItem] = 100
                  ELSE RoundedMidpoint(itemScores'[draggedItem], 100,
                                       SetMin(placedScores))]_vars

\* C6: right after an unplaced item is dropped on the ranked area it is the
\* last item of the list shown in the ranked area.
C6_AppendsAtBottom ==
    [][(SliderDropToRanked /\ draggedItem \notin rankedItemIds)
        => /\ sortedRankedItems' /= <<>>
           /\ sortedRankedItems'[Len(sortedRankedItems')] = draggedItem]_vars

\* C7: a drop of the dragged item on itself, or on the item directly below
\* it, leaves itemScores and rankedItemIds unchanged.
C7_NoOpDrop ==
    [][\A target \in Items :
        (/\ SliderDropOnItem(target)
         /\ draggedItem /= NoItem
         /\ NoOpDrop(draggedItem, target))
        => UNCHANGED <<itemScores, rankedItemIds>>]_vars

Descending(order, scores) ==
    \A k \in 1..(Len(order) - 1) :
        MapGet(scores, order[k]) >= MapGet(scores, order[k + 1])

C9_Rejected == { <<"-", "5">>, <<"a", "b", "c">>, <<"-">>, <<".">> }

C9_Value(text) ==
    CASE text = <<"0">> -> 0
      [] text = <<"7">> -> 700
      [] text = <<"3", ".", "5">> -> 350
      [] text = <<"-", "0">> -> 0
      [] text = <<"1", "2", "a">> -> 1200
      [] text = <<" ", "7">> -> 700

\* C9: on the free page a score text that is not blank and does not parse
\* to a number, or parses to a negative number, leaves itemScores and
\* rankedItemIds as they were; a text that parses to a number of at least 0
\* overwrites the item's score with that number.
C9_FreeValidation ==
    [][(mode = "free" /\ last'.op = "handleScoreChange" /\ last'.text /= <<>>)
        => /\ rankedItemIds' = rankedItemIds
           /\ IF last'.text \in C9_Rejected
              THEN itemScores' = itemScores
              ELSE itemScores' = [i \in DOMAIN itemScores \cup {last'.item} |->
                                    IF i = last'.item THEN C9_Value(last'.text)
                                    ELSE itemScores[i]]]_vars

C9_Witness ==
    /\ mode = "free"
    /\ last.op = "handleScoreChange"
    /\ last.text = <<"-", "5">>
    /\ MapGet(itemScores, last.item) = 350

\* C10: on the slider page handleScoreChange with a value below 1 or above
\* 100 leaves the score map unchanged.
C10_RangeRejected ==
    [][\A itemId \in Items : \A value \in RawValues :
        (handleScoreChange(itemId, value) /\ (value < 1000 \/ value > 100000))
        => itemScores' = itemScores]_vars

C12_PlaceNeverOverwrites ==
    [][/\ ((FreeDropToRanked \/ SliderDropToRanked) /\ draggedItem \in rankedItemIds)
          => UNCHANGED <<rankedItemIds, itemScores>>
       /\ (FreeDropToRanked /\ draggedItem \notin rankedItemIds)
          => /\ rankedItemIds' = rankedItemIds \cup {draggedItem}
             /\ DOMAIN itemScores' = DOMAIN itemScores \cup {draggedItem}
             /\ itemScores'[draggedItem] = 0
             /\ \A i \in DOMAIN itemScores : itemScores'[i] = itemScores[i]]_vars

C12_Witness ==
    /\ mode = "free"
    /\ last.op = "handleDropToRanked"
    /\ last.item \in rankedItemIds
    /\ MapGet(itemScores, last.item) = 700

\* The relations of graph g that point to item i.
RelationsOf(g, i) == {k \in 1..Len(g.relations) : g.relations[k].to = i}

\* C13: a reset on any page leaves no item placed or scored, and every graph
\* of the page right after it has no relation and the entity list of the
\* session start: the rank list, then the catalog items.
C13_Reset ==
    [][(TierReset \/ FreeReset \/ SliderReset)
        => /\ \A i \in Items : ~Placed(i)' /\ ~HasScore(i)'
           /\ \A g \in KnowledgeGraphs' :
                 /\ g.relations = <<>>
                 /\ g.entities = <<rankListEntity>> \o initialItemEntities]_vars

C13_Witness ==
    /\ mode = "slider"
    /\ last.op = "handleReset"
    /\ Len(sortedItemOrder) >= 2
    /\ rankedItemIds = {}
    /\ itemScores = EmptyMap

\* C14: on the free and slider pages every built graph holds exactly one
\* relation for each placed item with a stored score, from the rank list to
\* the item and carrying the stored score, and no relation for any other
\* item (unplaced, or placed with a blank score).
C14_BuildGraph ==
    mode \in {"free", "slider"} =>
        \A g \in buildGraph :
            /\ \A k \in 1..Len(g.relations) : g.relations[k].to \in Items
            /\ \A i \in Items :
                  IF i \in rankedItemIds /\ MapHas(itemScores, i)
                  THEN /\ Cardinality(RelationsOf(g, i)) = 1
                       /\ \A k \in RelationsOf(g, i) :
                             /\ g.relations[k].from = RankListId
                             /\ g.relations[k].score = itemScores[i]
                  ELSE RelationsOf(g, i) = {}

C14_Witness ==
    /\ mode = "free"
    /\ \E i \in rankedItemIds : ~MapHas(itemScores, i)
    /\ \E j \in rankedItemIds : MapGet(itemScores, j) = 350
    /\ \E u \in Items : u \notin rankedItemIds

\* C15: on every page the entity list of every graph is the rank list
\* followed by all catalog items in catalog order, whatever was placed,
\* unplaced, scored or dropped into a tier.
C15_EntitiesFixed ==
    \A g \in KnowledgeGraphs :
        g.entities = <<rankListEntity>> \o initialItemEntities

C15_Witness ==
    /\ mode = "tier"
    /\ last.op = "handleDrop"
    /\ Len(relations) = Len(initialItems)

RelationValues(pg, i) ==
    {[from |-> pg.relations[k].from, to |-> pg.relations[k].to,
      properties |-> pg.relations[k].properties] :
        k \in {j \in 1..Len(pg.relations) : pg.relations[j].to = i}}

\* What two runs must agree on: the entity list, the number of relations
\* and, per item, the from/to/score values of the relations targeting it.
RunOutcome(pg) ==
    [entities |-> pg.entities, count |-> Len(pg.relations),
     values |-> [i \in Items |-> RelationValues(pg, i)]]

C17_Deterministic ==
    LET outcomes == {RunOutcome(convertToPropertyGraph(g)) : g \in KnowledgeGraphs}
    IN  \A o1, o2 \in outcomes : o1 = o2

C17_Witness ==
    /\ mode = "slider"
    /\ Cardinality(rankedItemIds) >= 2
    /\ \E g1, g2 \in KnowledgeGraphs :
          /\ Len(g1.relations) >= 2
          /\ convertToPropertyGraph(g1) /= convertToPropertyGraph(g2)

\* C18: when the property graph has exactly one rank-list entity and every
\* one of its n relations runs between ids of entities of the graph, the
\* summary counts one entity operation and n relation operations.
RankListCount(pg) ==
    Cardinality({k \in 1..Len(pg.entities) : IsTierList(pg.entities[k])})

EntityIds(pg) == {pg.entities[k].id : k \in 1..Len(pg.entities)}

C18_Precondition ==
    /\ last.op = "prepareGRC20Edits"
    /\ RankListCount(pgraph) = 1
    /\ \A k \in 1..Len(pgraph.relations) :
          /\ pgraph.relations[k].from \in EntityIds(pgraph)
          /\ pgraph.relations[k].to \in EntityIds(pgraph)

C18_EncodeCounts ==
    C18_Precondition =>
        /\ prepared.data.summary.entityOps = 1
        /\ prepared.data.summary.relationOps = Len(pgraph.relations)

C18_Witness ==
    /\ C18_Precondition
    /\ \E k \in 1..Len(pgraph.entities) :
          /\ IsTierList(pgraph.entities[k])
          /\ pgraph.entities[k].properties.name = "Movies"
    /\ Len(pgraph.relations) = 2
    /\ pgraph.relations[1].properties.score = 6
    /\ pgraph.relations[2].properties.score = 3
    /\ prepared.data.summary.entityOps = 1
    /\ prepared.data.summary.relationOps = 2

\* C19: a relation one end of which is not in the id mapping (the ids of
\* the entities that are no rank list, and of the first rank list) adds no
\* operation and does not count; the other relations of the same graph are
\* encoded, in order, each with its score attached; the call returns a
\* result whatever the graph.
MappedIds(pg) ==
    {pg.entities[k].id : k \in {j \in 1..Len(pg.entities) :
                                   \/ ~IsTierList(pg.entities[j])
                                   \/ j = TierListIndex(pg)}}

Resolvable(relation) ==
    relation.from \in MappedIds(pgraph) /\ relation.to \in MappedIds(pgraph)

IsRelationOp(o) == o.op.type = "CREATE_RELATION"

C19_SkipsUnresolvable ==
    last.op = "prepareGRC20Edits" =>
        LET kept == SelectSeq(pgraph.relations, Resolvable)
            made == SelectSeq(prepared.data.edit.ops, IsRelationOp)
        IN  /\ prepared.status = "success"
            /\ prepared.data.summary.relationOps = Len(kept)
            /\ Len(made) = Len(kept)
            /\ \A k \in 1..Len(kept) :
                  /\ Len(made[k].op.relation.entityValues) = 1
                  /\ made[k].op.relation.entityValues[1].value
                        = ScoreToString(kept[k].properties.score)
                  /\ made[k]._description[2] = ItemNameOf(pgraph, kept[k].to)

C19_Witness ==
    /\ last.op = "prepareGRC20Edits"
    /\ Len(pgraph.relations) = 2
    /\ ~Resolvable(pgraph.relations[1])
    /\ pgraph.relations[1].to \notin EntityIds(pgraph)
    /\ Resolvable(pgraph.relations[2])
    /\ prepared.status = "success"
    /\ prepared.data.summary.relationOps = 1
    /\ prepared.data.summary.totalOps = 2

\* C20: when the rank-list entity of the property graph carries name and
\* rank_type, the batch holds nothing but the rank list's create-entity
\* operation and create-relation operations: no create-property operation
\* (propertyOps = 0) and no create-entity operation for another entity.
C20_MinimalEdits ==
    (/\ last.op = "prepareGRC20Edits"
     /\ TierListIndex(pgraph) /= 0
     /\ DOMAIN pgraph.entities[TierListIndex(pgraph)].properties
            = {"name", "rank_type"})
    => /\ prepared.data.summary.propertyOps = 0
       /\ prepared.data.summary.entityOps = 1
       /\ \A k \in 1..Len(prepared.data.edit.ops) :
             LET o == prepared.data.edit.ops[k].op
             IN  \/ o.type = "CREATE_RELATION"
                 \/ /\ o.type = "CREATE_ENTITY"
                    /\ k = 1
                    /\ o.entity.values[1].value
                          = pgraph.entities[TierListIndex(pgraph)].properties.name

\* C21: the name of the returned batch is the title when one is supplied,
\* and the name of the rank list of the graph otherwise.
C21_BatchName ==
    (last.op = "prepareGRC20Edits" /\ TierListIndex(pgraph) /= 0) =>
        prepared.data.edit.name =
            IF prepared.title /= "" THEN prepared.title
            ELSE pgraph.entities[TierListIndex(pgraph)].properties.name

\* C25: after a successful encode the summary's totalOps is the length of
\* the operation list and the sum of the three category counts, and every
\* operation of the list carries a description.
C25_SummaryConsistent ==
    (last.op = "prepareGRC20Edits" /\ prepared.status = "success") =>
        LET summary == prepared.data.summary
            ops == prepared.data.edit.ops
        IN  /\ summary.totalOps = Len(ops)
            /\ summary.totalOps
                  = summary.entityOps + summary.propertyOps + summary.relationOps
            /\ \A k \in 1..Len(ops) :
                  /\ "_description" \in DOMAIN ops[k]
                  /\ Len(ops[k]._description) > 0

C25_Witness ==
    /\ last.op = "prepareGRC20Edits"
    /\ prepared.status = "success"
    /\ prepared.data.summary.entityOps = 1
    /\ prepared.data.summary.propertyOps = 1
    /\ prepared.data.summary.relationOps = 0
    /\ Len(pgraph.relations) = 2
    /\ Len(prepared.data.edit.ops) = 2

\* C29: within one encode call every create-relation operation runs from
\* the protocol id of the rank list's create-entity operation to the
\* protocol id mapped to the relation's target; the mapping holds the ids
\* of this graph's entities only, sends distinct session ids to distinct
\* protocol ids, and every entity or relation id of the batch is an id
\* generated during the call.
IsEntityOp(o) == o.op.type = "CREATE_ENTITY"

GeneratedIds(run) == {IdUtilsGenerate(k) : k \in 1..run.generated}

C29_IdRemapping ==
    last.op = "prepareGRC20Edits" =>
        LET run == EncoderRun(pgraph)
            kept == SelectSeq(pgraph.relations, Resolvable)
            made == SelectSeq(prepared.data.edit.ops, IsRelationOp)
            created == SelectSeq(prepared.data.edit.ops, IsEntityOp)
        IN  /\ DOMAIN run.entityIdMap = MappedIds(pgraph)
            /\ \A a, b \in DOMAIN run.entityIdMap :
                  a /= b => run.entityIdMap[a] /= run.entityIdMap[b]
            /\ Len(made) = Len(kept)
            /\ \A k \in 1..Len(made) :
                  /\ made[k].op.relation.toEntity = run.entityIdMap[kept[k].to]
                  /\ made[k].op.relation.fromEntity = run.entityIdMap[kept[k].from]
                  /\ (TierListIndex(pgraph) /= 0
                      /\ kept[k].from = pgraph.entities[TierListIndex(pgraph)].id)
                     => /\ Len(created) = 1
                        /\ made[k].op.relation.fromEntity = created[1].op.entity.id
                  /\ made[k].op.relation.id \in GeneratedIds(run)
                  /\ made[k].op.relation.fromEntity \in GeneratedIds(run)
                  /\ made[k].op.relation.toEntity \in GeneratedIds(run)
            /\ \A k \in 1..Len(created) :
                  created[k].op.entity.id \in GeneratedIds(run)

C29_Witness ==
    /\ last.op = "prepareGRC20Edits"
    /\ Len(pgraph.entities) = 2
    /\ Len(SelectSeq(prepared.data.edit.ops, IsRelationOp)) = 2
    /\ Len(SelectSeq(prepared.data.edit.ops, IsEntityOp)) = 1
    /\ Cardinality(DOMAIN EncoderRun(pgraph).entityIdMap) = 2

\* C26: on the slider page the list shown in the ranked area holds exactly
\* the items of rankedItemIds, each once, in every reachable state.
C26_ShownIsRanked ==
    mode = "slider" =>
        /\ Range(sortedRankedItems) = rankedItemIds
        /\ Len(sortedRankedItems) = Cardinality(rankedItemIds)

\* C27: on the slider page no item outside rankedItemIds has an entry in
\* itemScores, in every reachable state.
C27_ScoresOfPlacedOnly ==
    mode = "slider" => DOMAIN itemScores \subseteq rankedItemIds

\* C28: a drop of the dragged item on a ranked target that changes the
\* dragged item's score leaves it strictly above the target's score and
\* strictly below the score of the item that was directly above the target.
C28_StrictlyBetween ==
    [][\A target \in Items :
        (/\ SliderDropOnItem(target)
         /\ draggedItem /= NoItem
         /\ target \in rankedItemIds
         /\ MapGet(itemScores', draggedItem) /= MapGet(itemScores, draggedItem))
        => /\ MapGet(itemScores', draggedItem) > itemScores[target]
           /\ ItemAbove(target) /= NoItem
                 => MapGet(itemScores', draggedItem) < itemScores[ItemAbove(target)]]_vars

C23_ErrorXorResult ==
    /\ prepared.status = "error" => "data" \notin DOMAIN prepared
    /\ last.op = "throw" => prepared.status = "error"

\* C24: in every mode a Prepare click while no item is placed is answered
\* with a notification only: the modal stays closed and the encoder is not
\* called.
C24_PrepareGuard ==
    [][(handlePrepareClick /\ \A i \in Items : ~Placed(i))
        => /\ last'.op = "alert"
           /\ showPublishModal' = FALSE
           /\ UNCHANGED <<prepared, isPreparing, pending>>]_vars

C24_Witness ==
    /\ last.op = "alert"
    /\ mode = "slider"
    /\ draggedItem /= NoItem
    /\ \A i \in Items : ~Placed(i)
    /\ ~showPublishModal
    /\ prepared = NotPrepared

\* C30: whenever a page calls the encoder the property graph it passes
\* holds at least one relation.
C30_EncoderGetsRelations ==
    last.op = "prepareGRC20Edits" => last.arg >= 1

====
